---- MODULE Spec2Model ----
(***************************************************************************)
(* Spectral embedding & similarity search: the Spec2VecAnalysis client     *)
(* (src/src/components/DeepSpectrum/Spec2VecAnalysis.jsx), the requests it *)
(* has in flight, and the broad-index builder of the backend it talks to.  *)
(* The backend is not part of the sources; its state machine follows       *)
(* section 4.3 of the specification.                                       *)
(***************************************************************************)
EXTENDS Integers, Sequences, FiniteSets, TLC

\* ------------------------------------------------------------------ bounds
\* Peaks of the largest chromatogram.
MaxPeaks == 2
\* Outstanding requests/timers of one kind the environment lets pile up
\* before the user's next click.
MaxInflight == 2
\* Batch searches alive at the same time.
MaxBatches == 2
\* Progress updates the builder publishes between 0 and ProgressMax.
MaxProgressSteps == 2

\* Entries of the longest embedding ranking handed to buildComparison.
MaxEmbedding == 11
\* Entries of the longest fragment-overlap ranking handed to it.
MaxFragment == 2

\* Entries of the largest reference library a similarity search scores.
MaxLibrary == 6

\* Peaks of the longest spectrum handed to peaksToVector.
MaxSpectrum == 2

\* Upper end of Building.progress (percent).
ProgressMax == 100

\* ------------------------------------------------------------ input domains
Files == {"fileA", "fileB"}
NoFile == "none"
Libs == {"libX"}
NoLib == "null"
LibChoices == Libs \cup {NoLib}

\* The chromatogram of a file: peak ids 1..NPeaks(f), in order.
NPeaks(f) == IF f = "fileA" THEN MaxPeaks ELSE 1
PeakIds(f) == 1..NPeaks(f)

NoPeak == [file |-> NoFile, id |-> 0]
FirstPeak(f) == [file |-> f, id |-> 1]

\* ----------------------------------------------------- broad index status
NoStatus == [state |-> "none", progress |-> 0]
NotBuilt == [state |-> "not_built", progress |-> 0]
Building(p) == [state |-> "building", progress |-> p]
Ready == [state |-> "ready", progress |-> ProgressMax]
Error == [state |-> "error", progress |-> 0]

ProgressValues == {(k * ProgressMax) \div MaxProgressSteps : k \in 0..MaxProgressSteps}
Snapshots == {NotBuilt, Ready, Error} \cup {Building(p) : p \in ProgressValues}

EmptyBag == [s \in Snapshots |-> 0]
BagSize(b) == LET RECURSIVE Sum(_)
                  Sum(S) == IF S = {} THEN 0
                            ELSE LET x == CHOOSE y \in S : TRUE
                                 IN b[x] + Sum(S \ {x})
              IN Sum(DOMAIN b)
BagAdd(b, x) == [b EXCEPT ![x] = @ + 1]
BagRemove(b, x) == [b EXCEPT ![x] = @ - 1]

\* ------------------------------------------------------------- batch tasks
\* The batches that are running: a bag (task |-> how many run in that state).
NoTasks == << >>

VARIABLES
  \* props handed down by the parent
  selectedFile, activeLib,
  \* React state of Spec2VecAnalysis
  mounted, chrom, selectedPeak, allResults, computing, activated, error, libInfo,
  broadMode, broadStatus, broadResults, broadComputing, broadActivated, pollRef,
  \* the event loop and the network
  timers, statusReqs, statusResps, buildReqs, buildResps,
  chromFetches, libFetches, tasks,
  \* the backend's broad index builder
  builder

propVars == <<selectedFile, activeLib>>
fileVars == <<chrom, selectedPeak, chromFetches>>
libVars == <<libInfo, libFetches>>
localVars == <<allResults, computing, activated, error>>
broadVars == <<broadResults, broadComputing, broadActivated>>
pollVars == <<broadStatus, pollRef, timers, statusReqs, statusResps>>
buildVars == <<buildReqs, buildResps>>

vars == <<selectedFile, activeLib, mounted, chrom, selectedPeak, allResults,
          computing, activated, error, libInfo, broadMode, broadStatus,
          broadResults, broadComputing, broadActivated, pollRef, timers,
          statusReqs, statusResps, buildReqs, buildResps, chromFetches,
          libFetches, tasks, builder>>

\* The two rankings of the selected peak and the rows buildComparison makes
\* of them.
VARIABLES cosineResults, sv2Results, comparison

compareVars == <<cosineResults, sv2Results, comparison>>

\* A value that may be missing (null / undefined): the empty set, or the set
\* holding the value.
Null == {}
Some(v) == {v}
The(o) == CHOOSE v \in o : TRUE

\* No ranking is being compared.
CompareIdle ==
  /\ cosineResults = << >>
  /\ sv2Results = << >>
  /\ comparison = Null

\* The SpectralMatching component (NeuralSafety): which of its two versions
\* runs (client-side embedding scoring, or the backend's ModifiedCosine
\* search), the candidates the backend holds for the selected peak, the
\* component's state, its request in flight, and whether a render threw.
VARIABLES variant, library, allEmbeddings, matchResult, searching,
          searchError, searchPending, crashed

searchVars == <<variant, library, allEmbeddings, matchResult, searching,
                searchError, searchPending, crashed>>

\* No similarity search is going on.
SearchIdle ==
  /\ variant = "embedding"
  /\ library = << >>
  /\ allEmbeddings = Null
  /\ matchResult = Null
  /\ searching = FALSE
  /\ searchError = Null
  /\ searchPending = FALSE
  /\ crashed = FALSE

\* The spectrum handed to peaksToVector and the vector it returned.
VARIABLES peaks, vector

vectorVars == <<peaks, vector>>

\* No spectrum is being vectorized.
VectorIdle ==
  /\ peaks = << >>
  /\ vector = Null

\* The embeddings of the library entries (mol.embedding) and the scored,
\* sorted list handleSearch makes of them for the query vector.
VARIABLES embeddings, scored

scoreVars == <<embeddings, scored>>

\* No library is being scored.
ScoreIdle ==
  /\ embeddings = << >>
  /\ scored = Null

otherVars == <<compareVars, searchVars, vectorVars, scoreVars>>
OthersIdle == CompareIdle /\ SearchIdle /\ VectorIdle /\ ScoreIdle
allVars == <<vars, otherVars>>

\* ------------------------------------------------------------------- views
\* Everything below the top bar is rendered only for a selected file
\* ({selectedFile && ...}); an unmounted component shows nothing.
Visible == mounted /\ selectedFile # NoFile

\* Outstanding work of the status/build subsystem.
PollLoad == statusReqs + BagSize(statusResps) + Cardinality(timers)
BuildLoad == buildReqs + BagSize(buildResps)

\* React drops state updates of an unmounted component.
SetState(old, new) == IF mounted THEN new ELSE old

\* ------------------------------------------------------------ construction
\* The state after the first render and its effects: the activeLib effect has
\* asked for the library list, the polling effect has sent its first status
\* request (broadMode starts true), the selectedFile effect has asked for the
\* chromatogram of the file the parent passed, if any.
Init ==
  /\ selectedFile \in Files \cup {NoFile}
  /\ activeLib = NoLib
  /\ mounted = TRUE
  /\ chrom = NoFile
  /\ selectedPeak = NoPeak
  /\ allResults = << >>
  /\ computing = FALSE
  /\ activated = FALSE
  /\ error = "null"
  /\ libInfo = "null"
  /\ broadMode = TRUE
  /\ broadStatus = NoStatus
  /\ broadResults = << >>
  /\ broadComputing = FALSE
  /\ broadActivated = FALSE
  /\ pollRef = 0
  /\ timers = {}
  /\ statusReqs = 1
  /\ statusResps = EmptyBag
  /\ buildReqs = 0
  /\ buildResps = EmptyBag
  /\ chromFetches = [f \in Files |-> IF f = selectedFile THEN 1 ELSE 0]
  /\ libFetches = [l \in LibChoices |-> IF l = NoLib THEN 1 ELSE 0]
  /\ tasks = NoTasks
  /\ builder = NotBuilt

\* The component constructed, nothing else going on.
InitComponent == Init /\ OthersIdle

\* ------------------------------------------- backend: broad index builder
\* build(): NotBuilt or Error enter Building{progress: 0}; a call while
\* Building or Ready changes nothing.
BuildMutRestart(b) == IF b.state = "building" THEN b ELSE Building(0)
BuildMutReset(b) == IF b.state = "ready" THEN b ELSE Building(0)
Build(b) == IF b.state \in {"not_built", "error"} THEN Building(0) ELSE b

\* The background task publishes a higher progress value.
BuilderProgressMutDecrease ==
  /\ builder.state = "building"
  /\ \E p \in ProgressValues :
       /\ p # builder.progress
       /\ builder' = Building(p)
  /\ UNCHANGED <<propVars, mounted, fileVars, libVars, localVars, broadMode,
                 broadVars, pollVars, buildVars, tasks>>
  /\ UNCHANGED otherVars

BuilderProgressMutWrap ==
  /\ builder.state = "building"
  /\ \E p \in ProgressValues :
       /\ p > builder.progress \/ (builder.progress = ProgressMax /\ p = 0)
       /\ builder' = Building(p)
  /\ UNCHANGED <<propVars, mounted, fileVars, libVars, localVars, broadMode,
                 broadVars, pollVars, buildVars, tasks>>
  /\ UNCHANGED otherVars

BuilderProgress ==
  /\ builder.state = "building"
  /\ \E p \in ProgressValues :
       /\ p > builder.progress
       /\ builder' = Building(p)
  /\ UNCHANGED <<propVars, mounted, fileVars, libVars, localVars, broadMode,
                 broadVars, pollVars, buildVars, tasks>>
  /\ UNCHANGED otherVars

BuilderSucceed ==
  /\ builder.state = "building"
  /\ builder' = Ready
  /\ UNCHANGED <<propVars, mounted, fileVars, libVars, localVars, broadMode,
                 broadVars, pollVars, buildVars, tasks>>
  /\ UNCHANGED otherVars

BuilderFail ==
  /\ builder.state = "building"
  /\ builder' = Error
  /\ UNCHANGED <<propVars, mounted, fileVars, libVars, localVars, broadMode,
                 broadVars, pollVars, buildVars, tasks>>
  /\ UNCHANGED otherVars

\* GET broad-index-status reaches the backend.
ServerStatus ==
  /\ statusReqs > 0
  /\ statusReqs' = statusReqs - 1
  /\ statusResps' = BagAdd(statusResps, builder)
  /\ UNCHANGED <<propVars, mounted, fileVars, libVars, localVars, broadMode,
                 broadVars, broadStatus, pollRef, timers, buildVars, tasks, builder>>
  /\ UNCHANGED otherVars

\* POST build-broad-index reaches the backend; the answer is the new status.
ServerBuild ==
  /\ buildReqs > 0
  /\ buildReqs' = buildReqs - 1
  /\ builder' = Build(builder)
  /\ buildResps' = BagAdd(buildResps, builder')
  /\ UNCHANGED <<propVars, mounted, fileVars, libVars, localVars, broadMode,
                 broadVars, pollVars, tasks>>
  /\ UNCHANGED otherVars

\* ---------------------------------------------- client: status polling
\* poll(): one status request.
\* The timer of one poll sets the next only while the index is building.
RescheduleMutAlways(s) == TRUE
Reschedule(s) == s.state = "building"

\* setTimeout returns an id no pending timer has.
NewTimer == CHOOSE t \in 1..(Cardinality(timers) + 1) : t \notin timers

\* .then((s) => { setBroadStatus(s); if (s.state === "building") ... })
StatusDeliver(s) ==
  /\ statusResps[s] > 0
  /\ statusResps' = BagRemove(statusResps, s)
  /\ broadStatus' = SetState(broadStatus, s)
  /\ IF Reschedule(s)
       THEN /\ timers' = timers \cup {NewTimer}
            /\ pollRef' = NewTimer
       ELSE UNCHANGED <<timers, pollRef>>
  /\ UNCHANGED <<propVars, mounted, fileVars, libVars, localVars, broadMode,
                 broadVars, statusReqs, buildVars, tasks, builder>>
  /\ UNCHANGED otherVars

\* fetch rejects (the request or its answer is lost): .catch(() => { }) ends
\* the chain without touching state.
StatusFail ==
  /\ statusReqs > 0
  /\ statusReqs' = statusReqs - 1
  /\ UNCHANGED <<propVars, mounted, fileVars, libVars, localVars, broadMode,
                 broadVars, broadStatus, pollRef, timers, statusResps, buildVars,
                 tasks, builder>>
  /\ UNCHANGED otherVars

\* A pending timer fires and runs poll().
TimerFire(t) ==
  /\ t \in timers
  /\ timers' = timers \ {t}
  /\ statusReqs' = statusReqs + 1
  /\ UNCHANGED <<propVars, mounted, fileVars, libVars, localVars, broadMode,
                 broadVars, broadStatus, pollRef, statusResps, buildVars, tasks,
                 builder>>
  /\ UNCHANGED otherVars

\* The polling effect's cleanup: clearTimeout(pollRef.current).
Cleanup(ts) == ts \ {pollRef}

\* The mode toggle: "Local Dataset" switches broad mode off (cleanup runs),
\* "Public DB" switches it on (the effect polls).
SetBroadMode(b) ==
  /\ Visible
  /\ b # broadMode
  /\ broadMode' = b
  /\ IF b
       THEN /\ PollLoad + BuildLoad < MaxInflight
            /\ statusReqs' = statusReqs + 1
            /\ UNCHANGED timers
       ELSE /\ timers' = Cleanup(timers)
            /\ UNCHANGED statusReqs
  /\ UNCHANGED <<propVars, mounted, fileVars, libVars, localVars, broadVars,
                 broadStatus, pollRef, statusResps, buildVars, tasks, builder>>
  /\ UNCHANGED otherVars

\* The parent removes the component: the cleanup of the polling effect runs
\* if the effect had been set up.
Unmount ==
  /\ mounted
  /\ mounted' = FALSE
  /\ timers' = IF broadMode THEN Cleanup(timers) ELSE timers
  /\ UNCHANGED <<propVars, fileVars, libVars, localVars, broadMode, broadVars,
                 broadStatus, pollRef, statusReqs, statusResps, buildVars, tasks,
                 builder>>
  /\ UNCHANGED otherVars

\* ------------------------------------------------ client: build request
\* "Build Broad Index" is shown with no status yet or not_built, "Riprova"
\* with error.
BuildButtonMutAlways ==
  /\ Visible
  /\ broadMode

BuildButton ==
  /\ Visible
  /\ broadMode
  /\ broadStatus.state \in {"none", "not_built", "error"}

handleBuildIndex ==
  /\ BuildButton
  /\ PollLoad + BuildLoad < MaxInflight
  /\ buildReqs' = buildReqs + 1
  /\ UNCHANGED <<propVars, mounted, fileVars, libVars, localVars, broadMode,
                 broadVars, pollVars, buildResps, tasks, builder>>
  /\ UNCHANGED otherVars

\* .then((s) => { setBroadStatus(s); if (s.state === "building")
\* setBroadMode(true); }): setting broadMode to the value it has re-runs no
\* effect; setting it from false to true runs the polling effect.
BuildDeliver(s) ==
  /\ buildResps[s] > 0
  /\ buildResps' = BagRemove(buildResps, s)
  /\ broadStatus' = SetState(broadStatus, s)
  /\ IF mounted /\ s.state = "building" /\ ~broadMode
       THEN /\ broadMode' = TRUE
            /\ statusReqs' = statusReqs + 1
       ELSE UNCHANGED <<broadMode, statusReqs>>
  /\ UNCHANGED <<propVars, mounted, fileVars, libVars, localVars, broadVars,
                 pollRef, timers, statusResps, buildReqs, tasks, builder>>
  /\ UNCHANGED otherVars

\* fetch rejects: .catch(() => { }). The request may have been lost on the
\* way (served = FALSE) or its answer on the way back (served = TRUE).
BuildFail(served) ==
  /\ buildReqs > 0
  /\ buildReqs' = buildReqs - 1
  /\ builder' = IF served THEN Build(builder) ELSE builder
  /\ UNCHANGED <<propVars, mounted, fileVars, libVars, localVars, broadMode,
                 broadVars, pollVars, buildResps, tasks>>
  /\ UNCHANGED otherVars

\* The status/build subsystem with the builder and the mode toggle.
NextPoll ==
  \/ BuilderProgress
  \/ BuilderSucceed
  \/ BuilderFail
  \/ ServerStatus
  \/ ServerBuild
  \/ \E s \in Snapshots : StatusDeliver(s)
  \/ StatusFail
  \/ \E t \in 1..MaxInflight : TimerFire(t)
  \/ \E b \in BOOLEAN : SetBroadMode(b)
  \/ Unmount
  \/ handleBuildIndex
  \/ \E s \in Snapshots : BuildDeliver(s)
  \/ \E served \in BOOLEAN : BuildFail(served)

SpecPoll == InitComponent /\ [][NextPoll]_allVars

\* The builder's background task is a running job: it keeps taking steps
\* while it has one to take.
BuilderStep == BuilderProgress \/ BuilderSucceed \/ BuilderFail
SpecPollFair == SpecPoll /\ WF_vars(BuilderStep)

\* ------------------------------------------- client: file, library, peak
\* The parent passes another selectedFile: the selectedFile effect resets the
\* per-file state and asks for the chromatogram.
SelectFile(f) ==
  /\ mounted
  /\ f # selectedFile
  /\ BagSize(chromFetches) < MaxInflight
  /\ selectedFile' = f
  /\ chrom' = NoFile
  /\ selectedPeak' = NoPeak
  /\ allResults' = << >>
  /\ activated' = FALSE
  /\ computing' = FALSE
  /\ error' = "null"
  /\ broadResults' = << >>
  /\ broadActivated' = FALSE
  /\ broadComputing' = FALSE
  /\ chromFetches' = [chromFetches EXCEPT ![f] = @ + 1]
  /\ UNCHANGED <<activeLib, mounted, libVars, broadMode, pollVars, buildVars,
                 tasks, builder>>
  /\ UNCHANGED otherVars

\* .then((data) => { setChrom(data); if (data.peaks?.length)
\* setSelectedPeak(data.peaks[0]); }): no check that f is still selected.
ChromDeliver(f) ==
  /\ chromFetches[f] > 0
  /\ chromFetches' = [chromFetches EXCEPT ![f] = @ - 1]
  /\ chrom' = SetState(chrom, f)
  /\ selectedPeak' = SetState(selectedPeak, FirstPeak(f))
  /\ UNCHANGED <<propVars, mounted, libVars, localVars, broadMode, broadVars,
                 pollVars, buildVars, tasks, builder>>
  /\ UNCHANGED otherVars

\* The chromatogram fetch rejects; nothing catches it and no state changes.
ChromFail(f) ==
  /\ chromFetches[f] > 0
  /\ chromFetches' = [chromFetches EXCEPT ![f] = @ - 1]
  /\ UNCHANGED <<propVars, mounted, chrom, selectedPeak, libVars, localVars,
                 broadMode, broadVars, pollVars, buildVars, tasks, builder>>
  /\ UNCHANGED otherVars

\* The parent passes another activeLib: the activeLib effect resets the local
\* results and asks for the library list.
ChangeLib(l) ==
  /\ mounted
  /\ l # activeLib
  /\ BagSize(libFetches) < MaxInflight
  /\ activeLib' = l
  /\ activated' = FALSE
  /\ allResults' = << >>
  /\ error' = "null"
  /\ libInfo' = "null"
  /\ libFetches' = [libFetches EXCEPT ![l] = @ + 1]
  /\ UNCHANGED <<selectedFile, mounted, fileVars, computing, broadMode,
                 broadVars, pollVars, buildVars, tasks, builder>>
  /\ UNCHANGED otherVars

\* .then((libs) => { ... if (found) setLibInfo(found); }) with the target
\* the effect captured; found is false when the list lacks it.
LibsDeliver(l, found) ==
  /\ libFetches[l] > 0
  /\ libFetches' = [libFetches EXCEPT ![l] = @ - 1]
  /\ libInfo' = IF found THEN SetState(libInfo, l) ELSE libInfo
  /\ UNCHANGED <<propVars, mounted, fileVars, localVars, broadMode, broadVars,
                 pollVars, buildVars, tasks, builder>>
  /\ UNCHANGED otherVars

\* .catch(() => {})
LibsFail(l) ==
  /\ libFetches[l] > 0
  /\ libFetches' = [libFetches EXCEPT ![l] = @ - 1]
  /\ UNCHANGED <<propVars, mounted, fileVars, libInfo, localVars, broadMode,
                 broadVars, pollVars, buildVars, tasks, builder>>
  /\ UNCHANGED otherVars

handleSelectPeak(id) ==
  /\ Visible
  /\ chrom # NoFile
  /\ id \in PeakIds(chrom)
  /\ selectedPeak # [file |-> chrom, id |-> id]
  /\ selectedPeak' = [file |-> chrom, id |-> id]
  /\ UNCHANGED <<propVars, mounted, chrom, chromFetches, libVars, localVars,
                 broadMode, broadVars, pollVars, buildVars, tasks, builder>>
  /\ UNCHANGED otherVars

\* ------------------------------------------------ client: batch searches
\* A batch is one run of handleActivate / handleBroadActivate: the peaks and
\* the library it captured, the peak whose answer it awaits and its local
\* results object.
NewTask(op, f, l) ==
  [op |-> op, file |-> f, lib |-> l, idx |-> 1, results |-> << >>]

Running == DOMAIN tasks
TaskCount == BagSize(tasks)
Start(ts, t) == IF t \in DOMAIN ts THEN [ts EXCEPT ![t] = @ + 1]
                ELSE ts @@ (t :> 1)
Stop(ts, t) == IF ts[t] > 1 THEN [ts EXCEPT ![t] = @ - 1]
               ELSE [u \in DOMAIN ts \ {t} |-> ts[u]]

\* What a map published by a batch holds for a peak: the outcome, with the
\* operation, file and library of the request that produced it.
Entry(t, out) == [op |-> t.op, file |-> t.file, lib |-> t.lib, out |-> out]
Publish(t, results) == [p \in DOMAIN results |-> Entry(t, results[p])]

\* The gate of the local search: the button is rendered in local mode before
\* activation and enabled with a selected peak.
LocalGate == Visible /\ ~broadMode /\ ~activated /\ selectedPeak # NoPeak

handleActivate ==
  /\ LocalGate
  /\ chrom # NoFile
  /\ TaskCount < MaxBatches
  /\ activated' = TRUE
  /\ computing' = TRUE
  /\ allResults' = << >>
  /\ error' = "null"
  /\ tasks' = Start(tasks, NewTask("local", chrom, activeLib))
  /\ UNCHANGED <<propVars, mounted, fileVars, libVars, broadMode, broadVars,
                 pollVars, buildVars, builder>>
  /\ UNCHANGED otherVars

\* The gate of the broad search: rendered only under status ready, before
\* activation, enabled with a loaded chromatogram.
BroadGateMutBuilding ==
  /\ Visible
  /\ broadMode
  /\ broadStatus.state \in {"ready", "building"}
  /\ ~broadActivated
  /\ chrom # NoFile
BroadGate ==
  /\ Visible
  /\ broadMode
  /\ broadStatus.state = "ready"
  /\ ~broadActivated
  /\ chrom # NoFile

handleBroadActivate ==
  /\ BroadGate
  /\ TaskCount < MaxBatches
  /\ broadActivated' = TRUE
  /\ broadComputing' = TRUE
  /\ broadResults' = << >>
  /\ tasks' = Start(tasks, NewTask("broad", chrom, NoLib))
  /\ UNCHANGED <<propVars, mounted, fileVars, libVars, localVars, broadMode,
                 pollVars, buildVars, builder>>
  /\ UNCHANGED otherVars

\* The answers the request a batch awaits can get: result lists ("hits"), a
\* body with an empty or no results list ("empty"), or a rejected fetch
\* ("fail"). The backend serves a broad search from the Ready matrix and
\* rejects it in any other state.
Answers(t) ==
  IF t.op = "broad" /\ builder.state # "ready" THEN {"fail"}
  ELSE {"hits", "empty", "fail"}

\* What the loop body records for an answer: the result lists, or empty
\* lists from the catch block (and from data.results ?? []).
Recorded(resp) == IF resp = "hits" THEN "hits" ELSE "empty"

\* Whether the loop goes on to the next peak after an answer.
ContinuesMutAbort(t, resp) == t.idx < NPeaks(t.file) /\ resp # "fail"
Continues(t, resp) == t.idx < NPeaks(t.file)

\* The await of a batch resumes with an answer: record the peak's result,
\* publish a copy of the local results, then either request the next peak or
\* finish.
TaskResume(t, resp) ==
  /\ t \in Running
  /\ resp \in Answers(t)
  /\ LET results == t.results @@ (t.idx :> Recorded(resp))
         more == Continues(t, resp)
     IN /\ tasks' = IF more
                      THEN Start(Stop(tasks, t),
                                 [t EXCEPT !.idx = @ + 1, !.results = results])
                      ELSE Stop(tasks, t)
        /\ IF t.op = "local"
             THEN /\ allResults' = SetState(allResults, Publish(t, results))
                  /\ computing' = IF more THEN computing
                                  ELSE SetState(computing, FALSE)
                  /\ UNCHANGED <<broadResults, broadComputing>>
             ELSE /\ broadResults' = SetState(broadResults, Publish(t, results))
                  /\ broadComputing' = IF more THEN broadComputing
                                       ELSE SetState(broadComputing, FALSE)
                  /\ UNCHANGED <<allResults, computing>>
  /\ UNCHANGED <<propVars, mounted, fileVars, libVars, activated, error,
                 broadMode, broadActivated, pollVars, buildVars, builder>>
  /\ UNCHANGED otherVars

\* ------------------------------------------------------- broad mode view
\* The hits of the selected peak: broadResults[selectedPeak.id] ?? null.
BroadHits ==
  IF selectedPeak # NoPeak /\ selectedPeak.id \in DOMAIN broadResults
    THEN broadResults[selectedPeak.id].out
    ELSE "null"

\* What the results of a started broad search render as.
BroadResultsView ==
  IF broadComputing /\ BroadHits = "null" THEN "loading"
  ELSE IF BroadHits = "null" THEN "blank"
  ELSE IF BroadHits = "empty" THEN "no_match"
  ELSE "match_list"

\* What the right-hand panel shows in broad mode.
BroadViewMutIgnoreStatus ==
  IF ~(Visible /\ broadMode) THEN "hidden"
  ELSE IF broadActivated THEN BroadResultsView
  ELSE IF broadStatus.state \in {"none", "not_built"} THEN "build_prompt"
  ELSE IF broadStatus.state = "building" THEN "progress"
  ELSE IF broadStatus.state = "error" THEN "error"
  ELSE "gate"
BroadView ==
  IF ~(Visible /\ broadMode) THEN "hidden"
  ELSE IF broadStatus.state \in {"none", "not_built"} THEN "build_prompt"
  ELSE IF broadStatus.state = "building" THEN "progress"
  ELSE IF broadStatus.state = "error" THEN "error"
  ELSE IF ~broadActivated THEN "gate"
  ELSE BroadResultsView

\* ------------------------------------------------ ranking comparison
\* Similarities are hundredths: 65 is 0.65.
TopRows == 10
WarnSimilarity == 65
WarnMatches == 5

Min(a, b) == IF a < b THEN a ELSE b

\* The embedding (Spec2Vec) ranking with n entries, best first.
EmbeddingRanking(n) ==
  [i \in 1..n |-> [id |-> MaxEmbedding + 1 - i, similarity |-> 100 - i]]

\* Entries a fragment-overlap (cosine) ranking can hold: the embedding
\* ranking's first candidate, its last within TopRows, the next one, or a
\* candidate the embedding ranking lacks (0).
FragmentIds ==
  {0, MaxEmbedding, MaxEmbedding + 1 - TopRows, MaxEmbedding - TopRows}
FragmentEntries ==
  [id : FragmentIds, similarity : {64, 65, 70}, n_matches : {Null, Some(4), Some(5)}]

\* A ranking lists a candidate once.
DistinctIds(r) == \A i, j \in 1..Len(r) : r[i].id = r[j].id => i = j
FragmentRankings ==
  {r \in UNION {[1..n -> FragmentEntries] : n \in 0..MaxFragment} : DistinctIds(r)}

InitCompare ==
  /\ Init
  /\ selectedFile = NoFile
  /\ ScoreIdle
  /\ SearchIdle
  /\ VectorIdle
  /\ cosineResults \in FragmentRankings
  /\ sv2Results \in {EmbeddingRanking(n) : n \in 0..MaxEmbedding}
  /\ comparison = Null

\* The rankings as the client takes them from the response: nothing in
\* handleActivate or buildComparison keeps an id from being listed twice.
AnyFragmentRankings ==
  UNION {[1..n -> FragmentEntries] : n \in 0..MaxFragment}

InitCompareAny ==
  /\ Init
  /\ selectedFile = NoFile
  /\ ScoreIdle
  /\ SearchIdle
  /\ VectorIdle
  /\ cosineResults \in AnyFragmentRankings
  /\ sv2Results \in {EmbeddingRanking(n) : n \in 0..MaxEmbedding}
  /\ comparison = Null

\* cosineResults.forEach((m, i) => { cosineRankMap[m.id] = i + 1; }) followed
\* by cosineRankMap[mol.id] ?? null: the last position of the id.
CosineRank(cosine, id) ==
  LET at == {i \in 1..Len(cosine) : cosine[i].id = id}
  IN IF at = {} THEN Null ELSE Some(CHOOSE i \in at : \A j \in at : j <= i)

\* cosineResults.find((m) => m.id === mol.id): the first entry of the id.
CosineEntry(cosine, id) ==
  LET at == {i \in 1..Len(cosine) : cosine[i].id = id}
  IN IF at = {} THEN Null ELSE Some(cosine[CHOOSE i \in at : \A j \in at : i <= j])

DeltaMutSwapped(cosineRank, sv2Rank) ==
  IF cosineRank # Null THEN Some(sv2Rank - The(cosineRank)) ELSE Null
Delta(cosineRank, sv2Rank) ==
  IF cosineRank # Null THEN Some(The(cosineRank) - sv2Rank) ELSE Null

FalsePosWarningMutNoCount(cosineSim, nMatches) ==
  cosineSim # Null /\ The(cosineSim) >= WarnSimilarity
FalsePosWarning(cosineSim, nMatches) ==
  /\ cosineSim # Null
  /\ The(cosineSim) >= WarnSimilarity
  /\ nMatches # Null
  /\ The(nMatches) < WarnMatches

buildComparison(cosine, sv2) ==
  IF Len(cosine) = 0 /\ Len(sv2) = 0 THEN << >>
  ELSE [i \in 1..Min(TopRows, Len(sv2)) |->
          LET mol == sv2[i]
              cosineRank == CosineRank(cosine, mol.id)
              cosineEntry == CosineEntry(cosine, mol.id)
              cosineSim == IF cosineEntry = Null THEN Null
                           ELSE Some(The(cosineEntry).similarity)
              nMatches == IF cosineEntry = Null THEN Null
                          ELSE The(cosineEntry).n_matches
          IN [mol |-> mol, sv2Rank |-> i, cosineRank |-> cosineRank,
              delta |-> Delta(cosineRank, i), cosineSim |-> cosineSim,
              sv2Sim |-> mol.similarity, nMatches |-> nMatches,
              falsePosWarning |-> FalsePosWarning(cosineSim, nMatches),
              aiOnly |-> cosineRank = Null]]

\* The render that follows the arrival of the selected peak's results.
Compare ==
  /\ comparison = Null
  /\ comparison' = Some(buildComparison(cosineResults, sv2Results))
  /\ UNCHANGED <<cosineResults, sv2Results>>
  /\ UNCHANGED <<vars, searchVars, vectorVars, scoreVars>>

\* ------------------------------------------------- similarity search
\* Similarities are hundredths. A library entry carries the similarity that
\* cosineSimilarity(queryVec, mol.embedding) gives it for the selected peak
\* (embedding version), or the one the backend reports (ModifiedCosine
\* version); its id is its place in the library.
TopShown == 5
Similarities == {20, 50, 90}
Libraries ==
  {[i \in DOMAIN f |-> [id |-> i, similarity |-> f[i]]] :
     f \in UNION {[1..n -> Similarities] : n \in 0..MaxLibrary}}

InitSearch ==
  /\ Init
  /\ selectedFile = NoFile
  /\ ScoreIdle
  /\ CompareIdle
  /\ VectorIdle
  /\ variant \in {"embedding", "modcos"}
  /\ library \in Libraries
  /\ allEmbeddings = Null
  /\ matchResult = Null
  /\ searching = FALSE
  /\ searchError = Null
  /\ searchPending = FALSE
  /\ crashed = FALSE

\* .sort((a, b) => b.similarity - a.similarity)
ByScoreMutAscending(a, b) == a.similarity - b.similarity
ByScore(a, b) == b.similarity - a.similarity

\* Array.prototype.sort is stable: an element goes before the first one the
\* comparator puts after it, and behind everything else.
RECURSIVE Sorted(_)
Sorted(arr) ==
  IF Len(arr) = 0 THEN << >>
  ELSE LET front == Sorted(SubSeq(arr, 1, Len(arr) - 1))
           x == arr[Len(arr)]
           after == {i \in 1..Len(front) : ByScore(front[i], x) > 0}
           k == IF after = {} THEN Len(front) + 1
                ELSE CHOOSE i \in after : \A j \in after : i <= j
       IN SubSeq(front, 1, k - 1) \o <<x>> \o SubSeq(front, k, Len(front))

\* { best: scored[0], top5: scored.slice(0, 5) }
Match(results) ==
  [best |-> IF Len(results) = 0 THEN Null ELSE Some(results[1]),
   top5 |-> SubSeq(results, 1, Min(TopShown, Len(results)))]

\* {matchResult && ( ... matchResult.best.similarity ... )}: reading a
\* property of undefined throws, and React takes the component down.
RenderThrows(m) == m # Null /\ The(m).best = Null

\* let embs = allEmbeddings; if (!embs) { ... fetch ... }: the embedding
\* version asks the backend only while it holds no library.
CachedMutNever == FALSE
Cached == variant = "embedding" /\ allEmbeddings # Null

\* The Similarity Search button (disabled while searching). With the
\* embeddings cached the embedding version runs to its end without awaiting.
handleSearch ==
  /\ ~crashed
  /\ ~searching
  /\ ~searchPending
  /\ searchError' = Null
  /\ IF Cached
       THEN /\ matchResult' = Some(Match(Sorted(The(allEmbeddings))))
            /\ crashed' = RenderThrows(matchResult')
            /\ UNCHANGED <<searching, searchPending>>
       ELSE /\ searching' = TRUE
            /\ matchResult' = Null
            /\ searchPending' = TRUE
            /\ UNCHANGED crashed
  /\ UNCHANGED <<variant, library, allEmbeddings>>
  /\ UNCHANGED <<vars, compareVars, vectorVars, scoreVars>>

\* The answer arrives. Embedding version: the library is cached, scored and
\* sorted. ModifiedCosine version: a status other than ok throws; otherwise
\* the ranked list is data.results ?? [].
SearchDeliver(ok, listed) ==
  /\ searchPending
  /\ searchPending' = FALSE
  /\ searching' = FALSE
  /\ IF variant = "embedding"
       THEN /\ ok /\ listed
            /\ allEmbeddings' = Some(library)
            /\ matchResult' = Some(Match(Sorted(library)))
            /\ UNCHANGED searchError
       ELSE /\ UNCHANGED allEmbeddings
            /\ IF ok
                 THEN /\ matchResult' =
                           Some(Match(IF listed THEN library ELSE << >>))
                      /\ UNCHANGED searchError
                 ELSE /\ listed
                      /\ searchError' = Some("detail")
                      /\ UNCHANGED matchResult
  /\ crashed' = RenderThrows(matchResult')
  /\ UNCHANGED <<variant, library>>
  /\ UNCHANGED <<vars, compareVars, vectorVars, scoreVars>>

\* fetch rejects. Embedding version: catch (err) { console.error(err) }.
\* ModifiedCosine version: catch (err) { setError(err.message) }.
SearchFail ==
  /\ searchPending
  /\ searchPending' = FALSE
  /\ searching' = FALSE
  /\ searchError' = IF variant = "embedding" THEN searchError
                    ELSE Some("Failed to fetch")
  /\ UNCHANGED <<variant, library, allEmbeddings, matchResult, crashed>>
  /\ UNCHANGED <<vars, compareVars, vectorVars, scoreVars>>

\* ------------------------------------------------------- vectorization
\* peaksToVector and gaussianSmooth. A Float64 is a fixed-point number:
\* an integer count of 1/Unit, every product and quotient rounded down to
\* it, so that rounding is part of what the operators compute.
MZ_LO == 30
MZ_HI == 1100
DIM == 300
Unit == 1000
\* sigma = 1.2, in tenths.
Sigma10 == 12
\* Math.max() of no arguments.
NegInfinity == -1

Max(a, b) == IF a > b THEN a ELSE b

\* The peaks a spectrum can hold: m/z below the window, on its two edges
\* and above it; intensities 0, 3 and 7.
PeakChoices == [mz : {20, MZ_LO, MZ_HI, 1200}, intensity : {0, 3, 7}]
Spectra == UNION {[1..n -> PeakChoices] : n \in 0..MaxSpectrum}

InitVectorize ==
  /\ Init
  /\ selectedFile = NoFile
  /\ ScoreIdle
  /\ CompareIdle
  /\ SearchIdle
  /\ peaks \in Spectra
  /\ vector = Null

\* new Float64Array(n)
ZerosMutShort(n) == [i \in 0..(n - 2) |-> 0]
Zeros(n) == [i \in 0..(n - 1) |-> 0]

\* Math.exp(-0.5 * (i / sigma) ** 2) for sigma = 1.2, in 1/Unit.
ExpTap(i) ==
  LET d == IF i < 0 THEN -i ELSE i
  IN CASE d = 0 -> 1000
       [] d = 1 -> 706
       [] d = 2 -> 249
       [] d = 3 -> 43
       [] OTHER -> 3

RECURSIVE SumOver(_, _, _)
SumOver(f, lo, hi) ==
  IF lo > hi THEN 0
  ELSE IF lo = hi THEN f[lo]
  ELSE LET mid == (lo + hi) \div 2
       IN SumOver(f, lo, mid) + SumOver(f, mid + 1, hi)

Radius == Max(1, (3 * Sigma10) \div 10)

\* kernel[i] /= ksum
Kernel ==
  LET raw == [k \in 0..(2 * Radius) |-> ExpTap(k - Radius)]
      ksum == SumOver(raw, 0, 2 * Radius)
  IN [k \in 0..(2 * Radius) |-> (raw[k] * Unit) \div ksum]

\* out[i] = sum of arr[j] * kernel[k] over the taps with 0 <= j < arr.length.
gaussianSmooth(arr) ==
  LET n == Cardinality(DOMAIN arr)
      kernel == Kernel
      tap(i, k) == LET j == i + k - Radius
                   IN IF j >= 0 /\ j < n
                        THEN (arr[j] * kernel[k]) \div Unit ELSE 0
      out(i) == LET taps == [k \in 0..(2 * Radius) |-> tap(i, k)]
                IN SumOver(taps, 0, 2 * Radius)
  IN [i \in 0..(n - 1) |-> out(i)]

\* Math.max(...peaks.map((p) => p.intensity))
MaxIntensity(ps) ==
  IF Len(ps) = 0 THEN NegInfinity
  ELSE CHOOSE m \in {ps[i].intensity : i \in 1..Len(ps)} :
         \A i \in 1..Len(ps) : ps[i].intensity <= m

InWindow(p) == ~(p.mz < MZ_LO \/ p.mz > MZ_HI)
BinIndex(p) ==
  Min(DIM - 1, ((p.mz - MZ_LO) * (DIM - 1)) \div (MZ_HI - MZ_LO))

\* peaks.forEach: each bin keeps the largest intensity / maxI put into it.
BinsMutSum(ps, maxI) ==
  [b \in 0..(DIM - 1) |->
     LET at == {k \in 1..Len(ps) : InWindow(ps[k]) /\ BinIndex(ps[k]) = b}
     IN SumOver([k \in 1..Len(ps) |->
                   IF k \in at THEN (ps[k].intensity * Unit) \div maxI ELSE 0],
                1, Len(ps))]
Bins(ps, maxI) ==
  [b \in 0..(DIM - 1) |->
     LET vals == {(ps[i].intensity * Unit) \div maxI :
                    i \in {k \in 1..Len(ps) : InWindow(ps[k]) /\ BinIndex(ps[k]) = b}}
         top == vals \cup {Zeros(DIM)[b]}
     IN CHOOSE v \in top : \A w \in top : w <= v]

\* Math.sqrt
Sqrt(x) == CHOOSE r \in 0..(DIM * Unit) : r * r <= x /\ x < (r + 1) * (r + 1)

peaksToVectorMutRaw(ps) ==
  LET maxI == MaxIntensity(ps)
  IN IF maxI = 0 THEN Zeros(DIM) ELSE gaussianSmooth(Bins(ps, maxI))
peaksToVector(ps) ==
  LET maxI == MaxIntensity(ps)
  IN IF maxI = 0 THEN Zeros(DIM)
     ELSE LET smoothed == gaussianSmooth(Bins(ps, maxI))
              squares == [i \in 0..(DIM - 1) |-> smoothed[i] * smoothed[i]]
              norm == Sqrt(SumOver(squares, 0, DIM - 1))
          IN IF norm > 0
               THEN [i \in DOMAIN smoothed |-> (smoothed[i] * Unit) \div norm]
               ELSE smoothed

\* The query vector of the selected peak is computed.
Vectorize ==
  /\ vector = Null
  /\ vector' = Some(peaksToVector(peaks))
  /\ UNCHANGED peaks
  /\ UNCHANGED <<vars, compareVars, searchVars, scoreVars>>

\* A spectrum with one more peak is vectorized.
AppendPeak(q) ==
  /\ vector # Null
  /\ Len(peaks) < MaxSpectrum
  /\ peaks' = Append(peaks, q)
  /\ vector' = Some(peaksToVector(peaks'))
  /\ UNCHANGED <<vars, compareVars, searchVars, scoreVars>>

\* A copy of a peak the spectrum already holds is added and the spectrum
\* is vectorized again.
DuplicatePeak(i) ==
  /\ vector # Null
  /\ i \in 1..Len(peaks)
  /\ Len(peaks) <= MaxSpectrum
  /\ peaks' = Append(peaks, peaks[i])
  /\ vector' = Some(peaksToVector(peaks'))
  /\ UNCHANGED <<vars, compareVars, searchVars, scoreVars>>

\* Spectra whose peaks all lie in the window.
WindowSpectra ==
  UNION {[1..n -> {p \in PeakChoices : InWindow(p)}] : n \in 0..MaxSpectrum}

InitDuplicate ==
  /\ Init
  /\ selectedFile = NoFile
  /\ CompareIdle
  /\ SearchIdle
  /\ ScoreIdle
  /\ peaks \in WindowSpectra
  /\ vector = Null

\* ------------------------------------------------------------- scoring
\* function cosineSimilarity(vecA, vecB): the dot product over DIM
\* components, Math.max(0, Math.min(1, dot)).
cosineSimilarityMutNoClamp(vecA, vecB) ==
  SumOver([i \in 0..(DIM - 1) |-> (vecA[i] * vecB[i]) \div Unit], 0, DIM - 1)
cosineSimilarity(vecA, vecB) ==
  LET dot == SumOver([i \in 0..(DIM - 1) |-> (vecA[i] * vecB[i]) \div Unit],
                     0, DIM - 1)
  IN Max(0, Min(Unit, dot))

\* embs.map((mol) => ({...mol, similarity: cosineSimilarity(queryVec,
\* mol.embedding)})); an entry's id is its place in the library.
ScoreAllMutSelf(queryVec, embs) ==
  [i \in 1..Len(embs) |->
     [id |-> i, similarity |-> cosineSimilarity(embs[i], embs[i])]]
ScoreAll(queryVec, embs) ==
  [i \in 1..Len(embs) |->
     [id |-> i, similarity |-> cosineSimilarity(queryVec, embs[i])]]

\* The library of the end-to-end scenario, as the backend embeds it with the
\* logic peaksToVector mirrors: A is the query's spectrum, B a spectrum with
\* no m/z in common with it, C the query's spectrum with every intensity
\* multiplied by k. Behind them three embeddings that no spectrum gives: all
\* zero, negative, and longer than a unit vector.
ScaleFactors == {2, 3}
Scaled(ps, k) ==
  [i \in DOMAIN ps |-> [mz |-> ps[i].mz, intensity |-> k * ps[i].intensity]]
DisjointSpectrum == <<[mz |-> (MZ_LO + MZ_HI) \div 2, intensity |-> 7]>>
Spike(v) == [i \in 0..(DIM - 1) |-> IF i \in {0, DIM - 1} THEN v ELSE 0]
DisjointEmbedding == peaksToVector(DisjointSpectrum)
Library(ps, k) ==
  <<peaksToVector(ps), DisjointEmbedding,
    peaksToVector(Scaled(ps, k)), Zeros(DIM), Spike(-Unit), Spike(2 * Unit)>>

InitScore ==
  /\ Init
  /\ selectedFile = NoFile
  /\ CompareIdle
  /\ SearchIdle
  /\ peaks \in WindowSpectra
  /\ vector = Null
  /\ \E k \in ScaleFactors : embeddings = Library(peaks, k)
  /\ scored = Null

\* The library is scored against the query vector and sorted.
Score ==
  /\ vector # Null
  /\ scored = Null
  /\ scored' = Some(Sorted(ScoreAll(The(vector), embeddings)))
  /\ UNCHANGED embeddings
  /\ UNCHANGED <<vars, compareVars, searchVars, vectorVars>>

\* ---------------------------------------------------------- specifications
NextFiles ==
  \/ \E f \in Files : SelectFile(f)
  \/ \E f \in Files : ChromDeliver(f)
  \/ \E f \in Files : ChromFail(f)
  \/ \E id \in 1..MaxPeaks : handleSelectPeak(id)

NextLibs ==
  \/ \E l \in LibChoices : ChangeLib(l)
  \/ \E l \in LibChoices, found \in BOOLEAN : LibsDeliver(l, found)
  \/ \E l \in LibChoices : LibsFail(l)

NextTasks ==
  \/ handleActivate
  \/ handleBroadActivate
  \/ \E t \in Running, resp \in {"hits", "empty", "fail"} : TaskResume(t, resp)

\* The user switches to the local dataset and stays there: file, library and
\* peak changes and local batches. The index is never built and the first
\* status answer is still outstanding.
NextLocal ==
  \/ SetBroadMode(FALSE)
  \/ Unmount
  \/ NextFiles
  \/ NextLibs
  \/ handleActivate
  \/ \E t \in Running, resp \in {"hits", "empty", "fail"} : TaskResume(t, resp)

SpecLocal == InitComponent /\ [][NextLocal]_allVars

\* The user stays in broad mode: status polling, build requests, the builder,
\* file and peak changes, and broad batches.
NextBroad ==
  \/ BuilderProgress
  \/ BuilderSucceed
  \/ BuilderFail
  \/ ServerStatus
  \/ ServerBuild
  \/ \E s \in Snapshots : StatusDeliver(s)
  \/ StatusFail
  \/ \E t \in 1..MaxInflight : TimerFire(t)
  \/ Unmount
  \/ handleBuildIndex
  \/ \E s \in Snapshots : BuildDeliver(s)
  \/ \E served \in BOOLEAN : BuildFail(served)
  \/ NextFiles
  \/ handleBroadActivate
  \/ \E t \in Running, resp \in {"hits", "empty", "fail"} : TaskResume(t, resp)

SpecBroad == InitComponent /\ [][NextBroad]_allVars

\* The whole client with its backend.
Next == NextPoll \/ NextFiles \/ NextLibs \/ NextTasks

Spec == InitComponent /\ [][Next]_allVars

NextCompare == Compare
SpecCompare == InitCompare /\ [][NextCompare]_allVars
SpecCompareAny == InitCompareAny /\ [][NextCompare]_allVars

NextSearch ==
  \/ handleSearch
  \/ \E ok, listed \in BOOLEAN : SearchDeliver(ok, listed)
  \/ SearchFail
SpecSearch == InitSearch /\ [][NextSearch]_allVars

NextVectorize ==
  \/ Vectorize
  \/ \E q \in PeakChoices : AppendPeak(q)
SpecVectorize == InitVectorize /\ [][NextVectorize]_allVars

NextDuplicate ==
  \/ Vectorize
  \/ \E i \in 1..MaxSpectrum : DuplicatePeak(i)
SpecDuplicate == InitDuplicate /\ [][NextDuplicate]_allVars

NextScore ==
  \/ Vectorize
  \/ Score
SpecScore == InitScore /\ [][NextScore]_allVars

\* ------------------------------------------------------------------ claims
LocalRunning == {t \in Running : t.op = "local"}
BroadRunning == {t \in Running : t.op = "broad"}
Count(S) == LET RECURSIVE Sum(_)
                Sum(T) == IF T = {} THEN 0
                          ELSE LET x == CHOOSE y \in T : TRUE
                               IN tasks[x] + Sum(T \ {x})
            IN Sum(S)

\* The snapshot a delivery took out of a bag of answers.
Taken(before, after) == CHOOSE s \in Snapshots : after[s] < before[s]

\* C1: whatever is stored for the current selection was produced by a request
\* issued for it: the chromatogram is the selected file's, and every entry of
\* allResults / broadResults comes from a search over the selected file (and
\* the active library).
C1_ResultsAreForCurrentSelection ==
  /\ chrom # NoFile => chrom = selectedFile
  /\ \A p \in DOMAIN allResults :
       allResults[p].file = selectedFile /\ allResults[p].lib = activeLib
  /\ \A p \in DOMAIN broadResults : broadResults[p].file = selectedFile

\* C2: once the mounted client, showing not_built or error, has stored the
\* answer to its build request and that answer reports Building, a status
\* check is outstanding (a request or answer in flight, or a pending timer),
\* so polling goes on without a user action.
C2_BuildingAnswerStartsPolling ==
  [][(BagSize(buildResps') < BagSize(buildResps)
      /\ mounted
      /\ broadStatus.state \in {"not_built", "error"}
      /\ Taken(buildResps, buildResps').state = "building")
     => PollLoad' > 0]_vars

\* C3: after the polling effect's cleanup has run (broad mode off, or the
\* component unmounted) no poll timer is pending.
C3_NoTimerAfterTeardown == (~mounted \/ ~broadMode) => timers = {}

\* C4: handling a status answer sets exactly one timer when the answer is
\* Building and none otherwise; it sends no request itself.
C4_PollReschedule ==
  [][BagSize(statusResps') < BagSize(statusResps)
     => /\ statusReqs' = statusReqs
        /\ IF Taken(statusResps, statusResps').state = "building"
             THEN /\ timers \subseteq timers'
                  /\ Cardinality(timers') = Cardinality(timers) + 1
             ELSE timers' = timers]_vars

\* A Building answer has been handled and its timer is pending.
C4_Witness ==
  /\ broadStatus.state = "building"
  /\ timers # {}
  /\ builder.state = "ready"

\* C5: a running batch holds an entry for every peak before the one it
\* awaits; when the awaited request fails, the peak is recorded as empty, the
\* copy published to the mounted component holds it, and the batch requests
\* the next peak, or ends (with every peak recorded) if it was the last.
C5_FailureDoesNotAbort ==
  /\ [](\A t \in Running : DOMAIN t.results = 1..(t.idx - 1))
  /\ [][\A t \in Running : TaskResume(t, "fail") =>
          LET published == IF t.op = "local" THEN allResults' ELSE broadResults'
              next == [t EXCEPT !.idx = @ + 1,
                                !.results = t.results @@ (t.idx :> "empty")]
          IN /\ mounted => /\ DOMAIN published = 1..t.idx
                           /\ published[t.idx].out = "empty"
             /\ IF t.idx < NPeaks(t.file)
                  THEN /\ next \in DOMAIN tasks'
                       /\ BagSize(tasks') = BagSize(tasks)
                  ELSE /\ mounted => DOMAIN published = PeakIds(t.file)
                       /\ BagSize(tasks') = BagSize(tasks) - 1]_vars

\* A batch went past a peak recorded as empty and awaits the next one.
C5_Witness ==
  \E t \in Running : t.idx > 1 /\ t.results[1] = "empty" /\ mounted

\* C6: the peak ids of a published results map are a prefix of the peak list
\* of the chromatogram on display.
IsPrefixOfChrom(m) ==
  \E k \in 0..(IF chrom = NoFile THEN 0 ELSE NPeaks(chrom)) : DOMAIN m = 1..k
C6_PublishedIsPrefix ==
  /\ IsPrefixOfChrom(allResults)
  /\ IsPrefixOfChrom(broadResults)

\* C7: at most one batch runs per results map.
C7_OneBatchPerMap ==
  /\ Count(LocalRunning) <= 1
  /\ Count(BroadRunning) <= 1

\* C8: whenever a broad batch is running (it always has one search request
\* outstanding), the broad index is Ready.
C8_BroadSearchOnlyWhenReady ==
  \A t \in BroadRunning : builder.state = "ready"

\* A broad batch is at its second request.
C8_Witness == \E t \in BroadRunning : t.idx = 2

\* C9: in broad mode with a status other than Ready the panel shows the build
\* prompt, the progress bar or the error, never results; and every entry of
\* broadResults comes from the broad search operation.
C9_NotReadyShowsNoMatches ==
  /\ (Visible /\ broadMode /\ broadStatus.state # "ready")
       => BroadView \in {"build_prompt", "progress", "error"}
  /\ \A p \in DOMAIN broadResults : broadResults[p].op = "broad"

\* Broad results are held while the stored status is not Ready.
C9_Witness ==
  /\ Visible
  /\ broadMode
  /\ broadActivated
  /\ BroadHits = "hits"
  /\ broadStatus.state # "ready"

\* C10: the builder starts NotBuilt and its state only ever changes
\* NotBuilt -> Building, Building -> Ready, Building -> Error or
\* Error -> Building; Ready never changes.
C10_BuilderLifecycle ==
  /\ builder = NotBuilt
  /\ [][builder'.state # builder.state =>
          <<builder.state, builder'.state>> \in
            {<<"not_built", "building">>, <<"building", "ready">>,
             <<"building", "error">>, <<"error", "building">>}]_vars

\* A build request was answered by a Ready builder, which stayed Ready.
C10_Witness == builder = Ready /\ buildResps[Ready] > 0

\* C11: a build request that reaches the builder while it is Building changes
\* nothing (one build, progress kept), and the answer it sends back is the
\* current status.
C11_BuildWhileBuildingIsNoOp ==
  [][(buildReqs' < buildReqs /\ builder.state = "building") =>
       /\ builder' = builder
       /\ BagSize(buildResps') > BagSize(buildResps)
            => buildResps' = BagAdd(buildResps, builder)]_vars

\* A build request was answered by a builder that was already under way.
C11_Witness == \E p \in ProgressValues : p > 0 /\ buildResps[Building(p)] > 0

\* C12: the progress of a Building builder lies in 0..ProgressMax, is 0 when
\* Building is entered and never decreases while the build goes on, so
\* successive status answers of one build report non-decreasing progress.
C12_ProgressMonotone ==
  /\ [](builder.state = "building" => builder.progress \in 0..ProgressMax)
  /\ [][(builder.state # "building" /\ builder'.state = "building")
          => builder'.progress = 0]_vars
  /\ [][(builder.state = "building" /\ builder'.state = "building")
          => builder'.progress >= builder.progress]_vars

\* A poll was answered with progress 0 and the build has advanced since.
C12_Witness ==
  /\ builder.state = "building"
  /\ builder.progress > 0
  /\ statusResps[Building(0)] > 0

Rows == The(comparison)
FragmentPositions(id) ==
  {j \in 1..Len(cosineResults) : cosineResults[j].id = id}

\* C14: the comparison has one row per candidate of the embedding ranking's
\* first 10, in that order, row i with embedding rank i; its delta is the
\* candidate's position in the fragment ranking minus i, and is missing
\* exactly when the fragment ranking does not list the candidate.
C14_ComparisonRows ==
  comparison # Null =>
    /\ DOMAIN Rows = 1..(IF Len(sv2Results) < 10 THEN Len(sv2Results) ELSE 10)
    /\ \A i \in DOMAIN Rows :
         /\ Rows[i].mol = sv2Results[i]
         /\ Rows[i].sv2Rank = i
         /\ Rows[i].delta = Null <=> FragmentPositions(Rows[i].mol.id) = {}
         /\ \A j \in FragmentPositions(Rows[i].mol.id) :
              Rows[i].delta = Some(j - i)

\* An embedding ranking longer than 10 was compared; one row has no
\* fragment rank, another has one that differs from its embedding rank.
C14_Witness ==
  /\ comparison # Null
  /\ Len(sv2Results) > 10
  /\ \E i, k \in DOMAIN Rows :
       /\ Rows[i].delta = Null
       /\ Rows[k].delta # Null
       /\ The(Rows[k].delta) # 0

\* C15: a row is flagged exactly when the fragment ranking lists its
\* candidate with similarity >= 0.65 and fewer than 5 matched peaks.
C15_LowConfidenceFlag ==
  comparison # Null =>
    \A i \in DOMAIN Rows :
      Rows[i].falsePosWarning <=>
        \E j \in FragmentPositions(Rows[i].mol.id) :
          /\ cosineResults[j].similarity >= 65
          /\ cosineResults[j].n_matches # Null
          /\ The(cosineResults[j].n_matches) < 5

\* Two rows with fragment similarity 0.70: 4 matched peaks, flagged, and 5
\* matched peaks, not flagged; a third row has no fragment entry.
C15_Witness ==
  /\ comparison # Null
  /\ \E i, k, n \in DOMAIN Rows :
       /\ Rows[i].falsePosWarning
       /\ Rows[i].cosineSim = Some(70) /\ Rows[i].nMatches = Some(4)
       /\ ~Rows[k].falsePosWarning
       /\ Rows[k].cosineSim = Some(70) /\ Rows[k].nMatches = Some(5)
       /\ ~Rows[n].falsePosWarning /\ Rows[n].aiOnly

\* The list a finished embedding search shows.
Top == The(matchResult).top5
InTop(e) == \E i \in 1..Len(Top) : Top[i] = e

\* C16: the list of a finished embedding search holds min(5, library size)
\* entries of the library, each once, by non-increasing similarity, equal
\* similarities in library order; no entry left out has a higher similarity
\* than one listed; the best match is the first of the list.
C16_StableDescendingTopN ==
  (variant = "embedding" /\ matchResult # Null) =>
    /\ Len(Top) = (IF Len(library) < 5 THEN Len(library) ELSE 5)
    /\ \A i \in 1..Len(Top) : \E k \in 1..Len(library) : library[k] = Top[i]
    /\ \A i, j \in 1..Len(Top) :
         i < j => \/ Top[i].similarity > Top[j].similarity
                  \/ /\ Top[i].similarity = Top[j].similarity
                     /\ Top[i].id < Top[j].id
    /\ \A k \in 1..Len(library) :
         ~InTop(library[k]) =>
           \A i \in 1..Len(Top) : library[k].similarity <= Top[i].similarity
    /\ Len(library) > 0 => The(matchResult).best = Some(Top[1])

\* A library of more than 5 entries was ranked: its first entry is not
\* listed, the list holds a tie, and the best match is not the library's
\* first entry.
C16_Witness ==
  /\ variant = "embedding"
  /\ matchResult # Null
  /\ Len(library) > 5
  /\ ~InTop(library[1])
  /\ \E i \in 1..(Len(Top) - 1) : Top[i].similarity = Top[i + 1].similarity
  /\ Top[1].similarity > Top[Len(Top)].similarity

\* C17: a search that finds no candidates leaves an empty list and no error:
\* no render throws and no error is stored.
C17_EmptyResultIsNoError ==
  (matchResult # Null /\ Len(Top) = 0) => (~crashed /\ searchError = Null)

\* C18: the step that handles a failure (library load, per-peak search,
\* status or build request, similarity search) leaves an error indicator set
\* and no results for the failed operation; a failed similarity search, and a
\* batch whose last request failed, leave no busy flag set.
ErrorIndicator == error # "null" \/ searchError # Null
C18_FailureSetsIndicator ==
  [][/\ ((\E l \in LibChoices : LibsFail(l))
         \/ (\E t \in Running : TaskResume(t, "fail"))
         \/ StatusFail
         \/ (\E served \in BOOLEAN : BuildFail(served))
         \/ SearchFail) => ErrorIndicator'
     /\ SearchFail => (matchResult' = Null /\ ~searching')
     /\ \A t \in Running :
          (TaskResume(t, "fail") /\ mounted /\ t.idx = NPeaks(t.file)) =>
            IF t.op = "local" THEN ~computing' ELSE ~broadComputing']_allVars

\* C19: the vector has exactly 300 components, and all of them are 0 when
\* the spectrum is empty or every intensity in it is 0.
C19_VectorLength ==
  vector # Null =>
    /\ DOMAIN The(vector) = 0..299
    /\ (\A i \in 1..Len(peaks) : peaks[i].intensity = 0)
         => \A b \in 0..299 : The(vector)[b] = 0

\* A spectrum of in-window peaks of intensity 0 was vectorized.
C19_Witness ==
  /\ vector # Null
  /\ Len(peaks) > 0
  /\ \A i \in 1..Len(peaks) : peaks[i].intensity = 0 /\ InWindow(peaks[i])

\* C20: appending a peak whose m/z lies outside [30, 1100] to a spectrum
\* leaves its vector as it was.
C20_OutOfWindowPeakIgnored ==
  [][(/\ vector # Null
      /\ \E q \in PeakChoices :
           /\ q.mz < 30 \/ q.mz > 1100
           /\ peaks' = Append(peaks, q))
     => vector' = vector]_allVars

\* C27: the stored broad-index status never moves backwards: a stored
\* building is never replaced by not_built, and a stored ready is never
\* replaced by building or not_built.
C27_StatusNeverMovesBack ==
  [][/\ broadStatus.state = "building" => broadStatus'.state # "not_built"
     /\ broadStatus.state = "ready" =>
          broadStatus'.state \notin {"building", "not_built"}]_allVars

\* C28: when a batch has been activated and its computing flag is false,
\* every peak of the current chromatogram has an entry in the results map
\* of that batch.
C28_IdleBatchIsComplete ==
  /\ (activated /\ ~computing /\ chrom # NoFile) =>
       1..NPeaks(chrom) \subseteq DOMAIN allResults
  /\ (broadActivated /\ ~broadComputing /\ chrom # NoFile) =>
       1..NPeaks(chrom) \subseteq DOMAIN broadResults

\* C29 as stated: a build request is sent only while the stored status is
\* not_built or error, never before a status has been stored.
C29_BuildOnlyWhenNotBuiltOrError ==
  [][buildReqs' > buildReqs =>
       broadStatus.state \in {"not_built", "error"}]_allVars

\* C29 amended: a build request is sent only while no status has been stored
\* yet or the stored status is not_built or error; never while it is
\* building or ready.
C29_BuildNeverWhileBuildingOrReady ==
  [][buildReqs' > buildReqs =>
       broadStatus.state \in {"none", "not_built", "error"}]_allVars

\* A build request is under way and no status has been stored yet.
C29_Witness ==
  /\ buildReqs > 0
  /\ broadStatus.state = "none"

\* C30: in every comparison row the fragment-overlap rank, similarity and
\* matched-peak count come from one entry of the fragment-overlap ranking,
\* the one at the row's rank; a row without a rank has neither of the others.
C30_RowFromOneEntry ==
  comparison # Null =>
    \A i \in DOMAIN Rows :
      LET row == Rows[i]
      IN IF row.cosineRank = Null
           THEN row.cosineSim = Null /\ row.nMatches = Null
           ELSE LET entry == cosineResults[The(row.cosineRank)]
                IN /\ row.cosineSim = Some(entry.similarity)
                   /\ row.nMatches = entry.n_matches

\* C24: once the library embeddings are cached, a search neither asks the
\* backend for them again nor changes the cached collection: its entries and
\* their order stay as they were delivered.
C24_LibraryLoadedOnceReadOnly ==
  [][allEmbeddings # Null =>
       /\ allEmbeddings' = allEmbeddings
       /\ ~searchPending'
       /\ allEmbeddings = Some(library)]_allVars

\* A search over a cached library whose order is not the ranking's.
C24_Witness ==
  /\ allEmbeddings # Null
  /\ matchResult # Null
  /\ Sorted(The(allEmbeddings)) # The(allEmbeddings)
  /\ The(matchResult).top5 # SubSeq(The(allEmbeddings), 1, Len(The(matchResult).top5))

\* Smoothing as section 4.1 of the specification words it: radius
\* ceil(3 * sigma), weights normalised to sum 1, taps that fall outside the
\* array left out.
CeilRadius == (3 * Sigma10 + 9) \div 10
KernelOf(r) ==
  LET raw == [k \in 0..(2 * r) |-> ExpTap(k - r)]
      ksum == SumOver(raw, 0, 2 * r)
  IN [k \in 0..(2 * r) |-> (raw[k] * Unit) \div ksum]
SmoothOf(arr, r) ==
  LET n == Cardinality(DOMAIN arr)
      tap(i, k) == LET j == i + k - r
                   IN IF j >= 0 /\ j < n
                        THEN (arr[j] * KernelOf(r)[k]) \div Unit ELSE 0
  IN [i \in 0..(n - 1) |->
        SumOver([k \in 0..(2 * r) |-> tap(i, k)], 0, 2 * r)]

\* C25: the smoothing of the binned spectrum is the one with kernel radius
\* ceil(3 * sigma) = 4, normalised weights and out-of-range taps left out.
C25_SmoothingKernel ==
  (vector # Null /\ MaxIntensity(peaks) > 0) =>
    LET bins == Bins(peaks, MaxIntensity(peaks))
    IN gaussianSmooth(bins) = SmoothOf(bins, CeilRadius)

\* Rounding to 1/Unit in every product and quotient leaves a computed 1.0
\* within one hundredth of Unit.
Tolerance == Unit \div 100
IsZero(v) == \A i \in DOMAIN v : v[i] = 0
NormSquared(v) == SumOver([i \in 0..(DIM - 1) |-> v[i] * v[i]], 0, DIM - 1)
IsUnit(v) ==
  /\ NormSquared(v) >= (Unit - Tolerance) * (Unit - Tolerance)
  /\ NormSquared(v) <= (Unit + Tolerance) * (Unit + Tolerance)
\* A spectrum with a peak of non-zero intensity, all peaks in the window.
InWindowSpectrum == \A i \in 1..Len(peaks) : InWindow(peaks[i])
Usable == \E i \in 1..Len(peaks) : peaks[i].intensity > 0
\* The place and the similarity of library entry id in the scored list.
PosOf(id) == CHOOSE j \in 1..Len(The(scored)) : The(scored)[j].id = id
SimOf(id) == The(scored)[PosOf(id)].similarity

\* C21 as stated: a vector peaksToVector returns is all zero or of L2 norm
\* 1, and the similarity of the query with the identical library spectrum
\* is 1.0 (within rounding) for every non-empty spectrum whose peaks all lie
\* in the window.
C21_SelfSimilarityIsOne ==
  /\ vector # Null => IsZero(The(vector)) \/ IsUnit(The(vector))
  /\ (scored # Null /\ Len(peaks) > 0 /\ InWindowSpectrum) =>
       SimOf(1) >= Unit - Tolerance

\* C21 amended: the same, for every spectrum whose peaks all lie in the
\* window and one of which has a non-zero intensity.
C21_SelfSimilarityOfUsableSpectrum ==
  /\ vector # Null => IsZero(The(vector)) \/ IsUnit(The(vector))
  /\ (scored # Null /\ Usable /\ InWindowSpectrum) =>
       SimOf(1) >= Unit - Tolerance

\* A spectrum with peaks of different intensity in two bins was scored
\* against itself, and rounding left the similarity below 1.0.
C21_Witness ==
  /\ scored # Null
  /\ Len(peaks) = 2
  /\ BinIndex(peaks[1]) # BinIndex(peaks[2])
  /\ 0 < peaks[1].intensity /\ peaks[1].intensity < peaks[2].intensity
  /\ SimOf(1) < Unit

\* C22: the similarity of every library entry is within [0, 1]: 0 for a
\* negative dot product, 1 for one above 1 and the dot product otherwise; it
\* is the same with the arguments exchanged, and 0 when the query or the
\* entry is the zero vector.
C22_ClampedSymmetricDot ==
  scored # Null =>
    \A id \in 1..Len(embeddings) :
      LET a == The(vector)
          b == embeddings[id]
          dot == SumOver([i \in 0..(DIM - 1) |-> (a[i] * b[i]) \div Unit],
                         0, DIM - 1)
      IN /\ SimOf(id) \in 0..Unit
         /\ dot < 0 => SimOf(id) = 0
         /\ dot > Unit => SimOf(id) = Unit
         /\ dot \in 0..Unit => SimOf(id) = dot
         /\ SimOf(id) = cosineSimilarity(b, a)
         /\ (IsZero(a) \/ IsZero(b)) => SimOf(id) = 0

\* A query vector that is not zero was scored against the zero embedding,
\* one with a negative dot product and one with a dot product above 1.
C22_Witness ==
  /\ scored # Null
  /\ ~IsZero(The(vector))
  /\ IsZero(embeddings[4])
  /\ \E id \in 1..Len(embeddings) :
       SumOver([i \in 0..(DIM - 1) |-> (The(vector)[i] * embeddings[id][i]) \div Unit],
               0, DIM - 1) < 0
  /\ \E id \in 1..Len(embeddings) :
       SumOver([i \in 0..(DIM - 1) |-> (The(vector)[i] * embeddings[id][i]) \div Unit],
               0, DIM - 1) > Unit

C26_DuplicatePeakKeepsVector ==
  [][/\ \A i \in 1..Len(peaks) :
          InWindow(peaks[i]) =>
            /\ BinIndex(peaks[i]) \in 0..299
            /\ BinIndex(peaks[i]) = ((peaks[i].mz - 30) * 299) \div (1100 - 30)
     /\ (vector # Null /\ \E i \in 1..Len(peaks) : peaks' = Append(peaks, peaks[i]))
          => vector' = vector]_allVars

\* A copy of the weaker peak was added to a spectrum with peaks in two bins.
C26_Witness ==
  /\ vector # Null
  /\ Len(peaks) = 3
  /\ peaks[3] = peaks[1]
  /\ BinIndex(peaks[1]) # BinIndex(peaks[2])
  /\ 0 < peaks[1].intensity /\ peaks[1].intensity < peaks[2].intensity

====
